---- MODULE Spec2Model ----
(***************************************************************************)
(* Model of gb_reader: the instruction interpreter (src/src/cpu.rs), the   *)
(* video timing machine (src/src/ppu.rs) and the display surface's open    *)
(* flag (src/src/window.rs).                                               *)
(***************************************************************************)
EXTENDS Integers, Sequences, FiniteSets, TLC

VARIABLES
    cpu,        \* the CPU struct: regs, mem, ir_enabled, quit, jumped
    build,      \* TRUE: arithmetic overflow checks compiled in (debug), FALSE: wrapping (release)
    panicked,   \* the process aborted on an arithmetic overflow
    result,     \* value returned by the last process() call ("none" before the first)
    last,       \* snapshot taken when the last process() call fetched its instruction
    nsteps,     \* number of process() calls made
    state,      \* PPU.state
    ly,         \* PPU.ly
    lclk,       \* PPU.lclk
    lcd_open,   \* Window.open of PPU.lcd
    nticks,     \* tick() calls made while running since the last start()
    frames,     \* Window::draw calls made
    called,     \* the PPU method called last ("none" before the first call)
    drew,       \* Window::draw calls made by that call
    rc,         \* a RegisterCache (src/src/registers.rs)
    regop,      \* the RegOps call made last on rc
    nregops,    \* number of RegOps calls made on rc
    owed        \* driver: tick() calls still to make for the instruction just run

cpuvars == <<cpu, build, panicked, result, last, nsteps>>
ppuvars == <<state, ly, lclk, lcd_open, nticks, frames, called, drew>>
regvars == <<rc, regop, nregops>>
drvvars == <<owed>>
vars == <<cpu, build, panicked, result, last, nsteps,
          state, ly, lclk, lcd_open, nticks, frames, called, drew,
          rc, regop, nregops, owed>>

----------------------------------------------------------------------------
(* Bounds *)
MaxSteps  == 4
MaxTicks  == 17600
MaxFrames == 2
MaxRegOps == 2

----------------------------------------------------------------------------
(* Video timing machine, src/src/ppu.rs *)

PPUState == {"Off", "HBlank", "VBlank", "OAMSearch", "Draw"}

is_running == state # "Off"

Bump(n, max) == IF n < max THEN n + 1 ELSE n

\* tick's HBlank arm leaving ly as it is at the end of a line
tick_HBlank_noinc ==
    IF lclk = 113
    THEN /\ state' = (IF ly = 143 THEN "VBlank" ELSE "Draw")
         /\ lclk' = 0
         /\ UNCHANGED ly
    ELSE /\ lclk' = lclk + 1
         /\ UNCHANGED <<state, ly>>

\* tick's HBlank arm ending the line one cycle late
tick_HBlank_late ==
    IF lclk = 114
    THEN /\ state' = (IF ly = 143 THEN "VBlank" ELSE "Draw")
         /\ ly' = ly + 1
         /\ lclk' = 0
    ELSE /\ lclk' = lclk + 1
         /\ UNCHANGED <<state, ly>>

\* tick's HBlank arm ending the line one cycle early
tick_HBlank_short ==
    IF lclk = 112
    THEN /\ state' = (IF ly = 143 THEN "VBlank" ELSE "Draw")
         /\ ly' = ly + 1
         /\ lclk' = 0
    ELSE /\ lclk' = lclk + 1
         /\ UNCHANGED <<state, ly>>

\* tick's HBlank arm entering VBlank one scanline early
tick_HBlank_vblank_early ==
    IF lclk = 113
    THEN /\ state' = (IF ly = 142 THEN "VBlank" ELSE "Draw")
         /\ ly' = ly + 1
         /\ lclk' = 0
    ELSE /\ lclk' = lclk + 1
         /\ UNCHANGED <<state, ly>>

tick_HBlank ==
    IF lclk = 113
    THEN /\ state' = (IF ly = 143 THEN "VBlank" ELSE "Draw")
         /\ ly' = ly + 1
         /\ lclk' = 0
    ELSE /\ lclk' = lclk + 1
         /\ UNCHANGED <<state, ly>>

\* tick's VBlank arm ending the frame one line early
tick_VBlank_short ==
    IF lclk = 113
    THEN /\ IF ly = 152
            THEN state' = "OAMSearch" /\ ly' = 0
            ELSE ly' = ly + 1 /\ UNCHANGED state
         /\ lclk' = 0
    ELSE /\ lclk' = lclk + 1
         /\ UNCHANGED <<state, ly>>

\* tick's VBlank arm going back to scanline 144 instead of ending the frame
tick_VBlank_stuck ==
    IF lclk = 113
    THEN /\ IF ly = 153
            THEN state' = "VBlank" /\ ly' = 144
            ELSE ly' = ly + 1 /\ UNCHANGED state
         /\ lclk' = 0
    ELSE /\ lclk' = lclk + 1
         /\ UNCHANGED <<state, ly>>

tick_VBlank ==
    IF lclk = 113
    THEN /\ IF ly = 153
            THEN state' = "OAMSearch" /\ ly' = 0
            ELSE ly' = ly + 1 /\ UNCHANGED state
         /\ lclk' = 0
    ELSE /\ lclk' = lclk + 1
         /\ UNCHANGED <<state, ly>>

\* tick's OAMSearch arm leaving for Draw one cycle late
tick_OAMSearch_late ==
    /\ state' = (IF lclk = 20 THEN "Draw" ELSE state)
    /\ lclk' = lclk + 1
    /\ UNCHANGED ly

\* tick's OAMSearch arm restarting the dot counter when it leaves for Draw
tick_OAMSearch_reset ==
    /\ state' = (IF lclk = 19 THEN "Draw" ELSE state)
    /\ lclk' = (IF lclk = 19 THEN 0 ELSE lclk + 1)
    /\ UNCHANGED ly

tick_OAMSearch ==
    /\ state' = (IF lclk = 19 THEN "Draw" ELSE state)
    /\ lclk' = lclk + 1
    /\ UNCHANGED ly

\* tick's Draw arm restarting the dot counter when it leaves for HBlank
tick_Draw_reset ==
    /\ state' = (IF lclk = 62 THEN "HBlank" ELSE state)
    /\ lclk' = (IF lclk = 62 THEN 0 ELSE lclk + 1)
    /\ UNCHANGED ly

tick_Draw ==
    /\ state' = (IF lclk = 62 THEN "HBlank" ELSE state)
    /\ lclk' = lclk + 1
    /\ UNCHANGED ly

\* PPU::tick with the Off arm counting dots as OAMSearch does
tick_call_off_counts ==
    /\ CASE state = "Off"       -> tick_OAMSearch
         [] state = "HBlank"    -> tick_HBlank
         [] state = "VBlank"    -> tick_VBlank
         [] state = "OAMSearch" -> tick_OAMSearch
         [] state = "Draw"      -> tick_Draw
    /\ nticks' = (IF state = "Off" THEN nticks ELSE Bump(nticks, MaxTicks))
    /\ called' = "tick"
    /\ drew' = 0
    /\ UNCHANGED <<lcd_open, frames>>

\* PPU::tick: its effect on the PPU
tick_call ==
    /\ CASE state = "Off"       -> UNCHANGED <<state, ly, lclk>>
         [] state = "HBlank"    -> tick_HBlank
         [] state = "VBlank"    -> tick_VBlank
         [] state = "OAMSearch" -> tick_OAMSearch
         [] state = "Draw"      -> tick_Draw
    /\ nticks' = (IF state = "Off" THEN nticks ELSE Bump(nticks, MaxTicks))
    /\ called' = "tick"
    /\ drew' = 0
    /\ UNCHANGED <<lcd_open, frames>>

tick ==
    /\ tick_call
    /\ UNCHANGED <<cpuvars, regvars, drvvars>>

\* Window::get_events followed by Window::is_open: the value of `open` after
\* the pending events have been drained.
get_events(open, pending) == open /\ ~pending

\* PPU::render that goes on running, and draws, when the window has closed
render_nostop(s, open, pending, n) ==
    IF s # "Off"
    THEN [state |-> s, open |-> get_events(open, pending), frames |-> Bump(n, MaxFrames), drew |-> 1]
    ELSE [state |-> s, open |-> open, frames |-> n, drew |-> 0]

\* PPU::render called with the mode already set to s: the resulting mode,
\* open flag and frame count.
render(s, open, pending, n) ==
    IF s # "Off"
    THEN LET o == get_events(open, pending)
         IN  IF o THEN [state |-> s, open |-> o, frames |-> Bump(n, MaxFrames), drew |-> 1]
                  ELSE [state |-> "Off", open |-> o, frames |-> n, drew |-> 0]
    ELSE [state |-> s, open |-> open, frames |-> n, drew |-> 0]

\* quit_event: a Quit or Escape-key event is waiting in the window's event
\* queue when render polls it.
\* PPU::start without the reset of the scanline index
start_call_keeps_ly(quit_event) ==
    LET r == render("OAMSearch", lcd_open, quit_event, frames)
    IN  /\ state' = r.state
        /\ lclk' = 0
        /\ lcd_open' = r.open
        /\ frames' = r.frames
        /\ nticks' = 0
        /\ called' = "start"
        /\ drew' = r.drew
        /\ UNCHANGED ly

start_call(quit_event) ==
    LET r == render("OAMSearch", lcd_open, quit_event, frames)
    IN  /\ state' = r.state
        /\ lclk' = 0
        /\ ly' = 0
        /\ lcd_open' = r.open
        /\ frames' = r.frames
        /\ nticks' = 0
        /\ called' = "start"
        /\ drew' = r.drew

start ==
    \E quit_event \in BOOLEAN :
        /\ start_call(quit_event)
        /\ UNCHANGED <<cpuvars, regvars, drvvars>>

stop ==
    /\ state' = "Off"
    /\ nticks' = 0
    /\ called' = "stop"
    /\ drew' = 0
    /\ UNCHANGED <<ly, lclk, lcd_open, frames>>
    /\ UNCHANGED <<cpuvars, regvars, drvvars>>

----------------------------------------------------------------------------
(* Memory bus: a flat byte store over 16-bit addresses.  Bytes that were   *)
(* never stored read as zero; mem holds the bytes of the loaded image and  *)
(* the bytes written since.                                                *)

MemGet(m, addr) == IF addr \in DOMAIN m THEN m[addr] ELSE 0

MemSet(m, val, addr) == [x \in (DOMAIN m) \cup {addr} |-> IF x = addr THEN val ELSE m[x]]

----------------------------------------------------------------------------
(* Instruction interpreter, src/src/cpu.rs *)

W16 == 65536
W8  == 256

\* u16 / u8 arithmetic of a build without overflow checks
Wrap16(x) == x % W16
Wrap8(x)  == x % W8
\* the condition under which a build with overflow checks aborts
Ovf16(x) == x < 0 \/ x >= W16
Ovf8(x)  == x < 0 \/ x >= W8

\* (offset as i8) as i32
AsI8(b) == IF b >= 128 THEN b - 256 ELSE b

\* u8 << n: bits shifted out are dropped, never an overflow abort
Shl8(x, n) == (x * (2 ^ n)) % W8

Flags_new == [zero |-> FALSE, was_sub |-> FALSE, half_carry |-> FALSE, carry |-> FALSE]

get_double(d) == (d.hi * 256) + d.lo

set_double(val) == [lo |-> val % 256, hi |-> val \div 256]

Registers_new ==
    [a  |-> 0,
     f  |-> Flags_new,
     bc |-> [lo |-> 0, hi |-> 0],
     de |-> [lo |-> 0, hi |-> 0],
     hl |-> [lo |-> 0, hi |-> 0],
     sp |-> 0,
     pc |-> 0]

get_a(r) == r.a
get_b(r) == r.bc.lo
get_c(r) == r.bc.hi
get_d(r) == r.de.lo
get_e(r) == r.de.hi
get_h(r) == r.hl.lo
get_l(r) == r.hl.hi
set_a(r, val) == [r EXCEPT !.a = val]
set_b(r, val) == [r EXCEPT !.bc.lo = val]
set_c(r, val) == [r EXCEPT !.bc.hi = val]
set_d(r, val) == [r EXCEPT !.de.lo = val]
set_e(r, val) == [r EXCEPT !.de.hi = val]
set_h(r, val) == [r EXCEPT !.hl.lo = val]
set_l(r, val) == [r EXCEPT !.hl.hi = val]

get_bc(r) == get_double(r.bc)
get_de(r) == get_double(r.de)
get_hl(r) == get_double(r.hl)
set_sp(r, val) == [r EXCEPT !.sp = val]
set_bc(r, val) == [r EXCEPT !.bc = set_double(val)]
set_de(r, val) == [r EXCEPT !.de = set_double(val)]
set_hl(r, val) == [r EXCEPT !.hl = set_double(val)]

CPU_new(m) ==
    [regs |-> Registers_new, mem |-> m, ir_enabled |-> TRUE, quit |-> FALSE, jumped |-> FALSE]

\* CPU::parse_u16 taking the byte at iaddr as the high byte
parse_u16_bigendian(m, iaddr) == (MemGet(m, iaddr) * 256) + MemGet(m, Wrap16(iaddr + 1))

\* ((mem[iaddr+1] as u16) << 8) | mem[iaddr]
parse_u16(m, iaddr) == (MemGet(m, Wrap16(iaddr + 1)) * 256) + MemGet(m, iaddr)
parse_u16_aborts(iaddr) == Ovf16(iaddr + 1)

split_u16(dword) == <<dword % 256, dword \div 256>>

\* The methods below take the CPU record c and the build flag chk and return
\* [c |-> the record afterwards, abort |-> the call hit a checked overflow].

\* CPU::call writing the return address high byte first
call_bigendian(c, chk, jump_addr, next_addr) ==
    LET sp1        == Wrap16(c.regs.sp - 2)
        split_addr == split_u16(next_addr)
        m1         == MemSet(c.mem, split_addr[2], sp1)
        m2         == MemSet(m1, split_addr[1], Wrap16(sp1 + 1))
    IN  [c |-> [c EXCEPT !.regs.sp = sp1, !.mem = m2, !.regs.pc = jump_addr, !.jumped = TRUE],
         abort |-> chk /\ (Ovf16(c.regs.sp - 2) \/ Ovf16(sp1 + 1))]

call(c, chk, jump_addr, next_addr) ==
    LET sp1        == Wrap16(c.regs.sp - 2)
        split_addr == split_u16(next_addr)
        m1         == MemSet(c.mem, split_addr[1], sp1)
        m2         == MemSet(m1, split_addr[2], Wrap16(sp1 + 1))
    IN  [c |-> [c EXCEPT !.regs.sp = sp1, !.mem = m2, !.regs.pc = jump_addr, !.jumped = TRUE],
         abort |-> chk /\ (Ovf16(c.regs.sp - 2) \/ Ovf16(sp1 + 1))]

ret(c, chk) ==
    LET addr == parse_u16(c.mem, c.regs.sp)
    IN  [c |-> [c EXCEPT !.regs.sp = Wrap16(c.regs.sp + 2), !.regs.pc = addr, !.jumped = TRUE],
         abort |-> chk /\ (parse_u16_aborts(c.regs.sp) \/ Ovf16(c.regs.sp + 2))]

jump_relative(c, offset) ==
    LET addr == c.regs.pc + AsI8(offset)
    IN  IF addr < 0 \/ addr > 65535
        THEN [c EXCEPT !.quit = TRUE]
        ELSE [c EXCEPT !.regs.pc = addr, !.jumped = TRUE]

\* One arm of the opcode match: the record afterwards, the cycle count and
\* the instruction size the arm leaves in `cycles` and `opsize`.
Arm(c, cyc, size) == [c |-> c, cycles |-> cyc, opsize |-> size, abort |-> FALSE]

\* Operand i of the LD r,r' block 0x40..0x7F, in opcode order B C D E H L (HL) A
get_r8(c, i) ==
    CASE i = 0 -> get_b(c.regs)
      [] i = 1 -> get_c(c.regs)
      [] i = 2 -> get_d(c.regs)
      [] i = 3 -> get_e(c.regs)
      [] i = 4 -> get_h(c.regs)
      [] i = 5 -> get_l(c.regs)
      [] i = 6 -> MemGet(c.mem, get_hl(c.regs))
      [] i = 7 -> get_a(c.regs)

set_r8(c, i, val) ==
    CASE i = 0 -> [c EXCEPT !.regs = set_b(@, val)]
      [] i = 1 -> [c EXCEPT !.regs = set_c(@, val)]
      [] i = 2 -> [c EXCEPT !.regs = set_d(@, val)]
      [] i = 3 -> [c EXCEPT !.regs = set_e(@, val)]
      [] i = 4 -> [c EXCEPT !.regs = set_h(@, val)]
      [] i = 5 -> [c EXCEPT !.regs = set_l(@, val)]
      [] i = 6 -> [c EXCEPT !.mem = MemSet(@, val, get_hl(c.regs))]
      [] i = 7 -> [c EXCEPT !.regs = set_a(@, val)]

IOPage == 65280  \* 0xFF00

\* Opcodes with their own arm in the match of CPU::process
OpLD_rr  == (64 .. 127) \ {118}   \* 0x40..0x7F without HALT
ArmOpcodes ==
    {0, 1, 6, 14, 17, 22, 24, 30, 33, 38, 46, 49, 54, 62} \cup (64 .. 127)
    \cup {195, 203, 205, 201, 217, 224, 226, 234, 240, 242, 243, 250, 251}

\* The match statement of CPU::process
exec(c, chk, opcode, operand8, operand16) ==
    CASE opcode = 0   -> Arm(c, 4, 1)                                              \* 0x00 NOP
      [] opcode = 1   -> Arm([c EXCEPT !.regs = set_bc(@, operand16)], 12, 3)      \* 0x01 LD BC,d16
      [] opcode = 6   -> Arm([c EXCEPT !.regs = set_b(@, operand8)], 8, 2)         \* 0x06 LD B,d8
      [] opcode = 14  -> Arm([c EXCEPT !.regs = set_c(@, operand8)], 8, 2)         \* 0x0E LD C,d8
      [] opcode = 17  -> Arm([c EXCEPT !.regs = set_de(@, operand16)], 12, 3)      \* 0x11 LD DE,d16
      [] opcode = 22  -> Arm([c EXCEPT !.regs = set_d(@, operand8)], 8, 2)         \* 0x16 LD D,d8
      [] opcode = 24  -> Arm(jump_relative(c, operand8), 12, 2)                    \* 0x18 JR r8
      [] opcode = 30  -> Arm([c EXCEPT !.regs = set_e(@, operand8)], 8, 2)         \* 0x1E LD E,d8
      [] opcode = 33  -> Arm([c EXCEPT !.regs = set_hl(@, operand16)], 12, 3)      \* 0x21 LD HL,d16
      [] opcode = 38  -> Arm([c EXCEPT !.regs = set_h(@, operand8)], 8, 2)         \* 0x26 LD H,d8
      [] opcode = 46  -> Arm([c EXCEPT !.regs = set_l(@, operand8)], 8, 2)         \* 0x2E LD L,d8
      [] opcode = 49  -> Arm([c EXCEPT !.regs = set_sp(@, operand16)], 12, 3)      \* 0x31 LD SP,d16
      [] opcode = 54  -> Arm([c EXCEPT !.mem = MemSet(@, operand8, get_hl(c.regs))], 12, 2) \* 0x36 LD (hl),d8
      [] opcode = 62  -> Arm([c EXCEPT !.regs = set_a(@, operand8)], 8, 2)         \* 0x3E LD A,d8
      [] opcode \in OpLD_rr ->                                                     \* 0x40..0x7F LD r,r'
            LET dst == (opcode - 64) \div 8
                src == opcode % 8
            IN  Arm(set_r8(c, dst, get_r8(c, src)), IF src = 6 \/ dst = 6 THEN 8 ELSE 4, 1)
      [] opcode = 118 -> Arm([c EXCEPT !.quit = TRUE], 4, 1)                       \* 0x76 HALT
      [] opcode = 195 -> Arm([c EXCEPT !.regs.pc = operand16, !.jumped = TRUE], 16, 3) \* 0xC3 JP a16
      [] opcode = 203 -> Arm([c EXCEPT !.quit = TRUE], 4, 1)                       \* 0xCB unadjusted
      [] opcode = 205 ->                                                           \* 0xCD CALL a16
            LET r == call(c, chk, operand16, Wrap16(c.regs.pc + 3))
            IN  [c |-> r.c, cycles |-> 24, opsize |-> 3,
                 abort |-> r.abort \/ (chk /\ Ovf16(c.regs.pc + 3))]
      [] opcode = 201 ->                                                           \* 0xC9 RET
            LET r == ret(c, chk)
            IN  [c |-> r.c, cycles |-> 16, opsize |-> 1, abort |-> r.abort]
      [] opcode = 217 ->                                                           \* 0xD9 RETI
            LET r == ret(c, chk)
            IN  [c |-> [r.c EXCEPT !.ir_enabled = TRUE], cycles |-> 16, opsize |-> 1,
                 abort |-> r.abort]
      [] opcode = 224 ->                                                           \* 0xE0 LDH (a8),A
            Arm([c EXCEPT !.mem = MemSet(@, get_a(c.regs), IOPage + operand8)], 12, 2)
      [] opcode = 226 ->                                                           \* 0xE2 LD (C),A
            Arm([c EXCEPT !.mem = MemSet(@, get_a(c.regs), IOPage + get_c(c.regs))], 8, 2)
      [] opcode = 234 ->                                                           \* 0xEA LD (a16),A
            Arm([c EXCEPT !.mem = MemSet(@, get_a(c.regs), operand16)], 16, 3)
      [] opcode = 240 ->                                                           \* 0xF0 LDH A,(a8)
            Arm([c EXCEPT !.regs = set_a(@, MemGet(c.mem, IOPage + operand8))], 12, 2)
      [] opcode = 242 ->                                                           \* 0xF2 (same body as 0xE2)
            Arm([c EXCEPT !.mem = MemSet(@, get_a(c.regs), IOPage + get_c(c.regs))], 8, 2)
      [] opcode = 243 -> Arm([c EXCEPT !.ir_enabled = FALSE], 4, 1)                \* 0xF3 DI
      [] opcode = 250 ->                                                           \* 0xFA LD A,(a16)
            Arm([c EXCEPT !.regs = set_a(@, MemGet(c.mem, operand16))], 16, 3)
      [] opcode = 251 -> Arm([c EXCEPT !.ir_enabled = TRUE], 4, 1)                 \* 0xFB EI
      [] OTHER        -> Arm([c EXCEPT !.quit = TRUE], 4, 1)                       \* undefined

CBPrefix == 203  \* 0xCB

\* The fetch of CPU::process: opcode byte, operand8, operand16 and the
\* adjustment of a 0xCB opcode.
fetch(c) ==
    LET pc0       == c.regs.pc
        opcode0   == MemGet(c.mem, pc0)
        operand8  == MemGet(c.mem, Wrap16(pc0 + 1))
        operand16 == parse_u16(c.mem, Wrap16(pc0 + 1))
        prefixed  == opcode0 = CBPrefix
        pc1       == IF prefixed THEN Wrap16(pc0 + 1) ELSE pc0
    IN  [opcode    |-> IF prefixed THEN Wrap8(Shl8(opcode0, 2) + operand8) ELSE opcode0,
         prefixed  |-> prefixed,
         operand8  |-> operand8,
         operand16 |-> operand16,
         pc        |-> pc1,
         abort     |-> \/ Ovf16(pc0 + 1)
                       \/ parse_u16_aborts(Wrap16(pc0 + 1))
                       \/ prefixed /\ ( \/ Ovf8(Shl8(opcode0, 2) + operand8)
                                        \/ Ovf16(pc1 + 1) \/ Ovf16(pc1 + 2) )]

\* CPU::process past its first line, on a CPU that has not quit: the record
\* afterwards, the value returned, the cycle count and whether the call
\* aborted on a checked overflow.
process_body(c, chk) ==
    LET old_pc == c.regs.pc
        f  == fetch(c)
        c1 == [c EXCEPT !.jumped = FALSE, !.regs.pc = f.pc]
        x  == exec(c1, chk, f.opcode, f.operand8, f.operand16)
        c2 == IF ~x.c.jumped
              THEN [x.c EXCEPT !.regs.pc = Wrap16(@ + x.opsize)]
              ELSE x.c
    IN  [c      |-> c2,
         ok     |-> ~c2.quit,
         cycles |-> x.cycles,
         abort  |-> chk /\ ( \/ f.abort
                             \/ x.abort
                             \/ Ovf16(old_pc + (x.opsize - 1))
                             \/ (~x.c.jumped /\ Ovf16(x.c.regs.pc + x.opsize)) )]

\* CPU::process without its first line (the check of `quit`)
process_noquitcheck(c, chk) == process_body(c, chk)

\* CPU::process
process(c, chk) ==
    IF c.quit
    THEN [c |-> c, ok |-> FALSE, cycles |-> 0, abort |-> FALSE]
    ELSE process_body(c, chk)

----------------------------------------------------------------------------
(* Register Model, src/src/registers.rs *)

Reg8  == {"A", "B", "C", "D", "E", "H", "L"}
Reg16 == {"AF", "BC", "DE", "HL", "SP", "PC"}

get_first(d)  == d.a
get_second(d) == d.b
set_first(d, val)  == [d EXCEPT !.a = val]
set_second(d, val) == [d EXCEPT !.b = val]

\* DoubleRegister::get_double of registers.rs
rc_get_double(d) == (get_first(d) * 256) + get_second(d)

\* DoubleRegister::set_double of registers.rs with the two bytes exchanged
rc_set_double_swapped(d, val) == [a |-> val % 256, b |-> val \div 256]

\* DoubleRegister::set_double of registers.rs
rc_set_double(d, val) == [a |-> val \div 256, b |-> val % 256]

RegisterCache_new ==
    [af |-> [a |-> 0, b |-> 0],
     bc |-> [a |-> 0, b |-> 0],
     de |-> [a |-> 0, b |-> 0],
     hl |-> [a |-> 0, b |-> 0],
     sp |-> 0,
     pc |-> 0]

\* RegOps<Reg8, u8>
rc_get8(r, src) ==
    CASE src = "A" -> get_first(r.af)
      [] src = "B" -> get_first(r.bc)
      [] src = "C" -> get_second(r.bc)
      [] src = "D" -> get_first(r.de)
      [] src = "E" -> get_second(r.de)
      [] src = "H" -> get_first(r.hl)
      [] src = "L" -> get_second(r.hl)

rc_set8(r, dst, val) ==
    CASE dst = "A" -> [r EXCEPT !.af = set_first(@, val)]
      [] dst = "B" -> [r EXCEPT !.bc = set_first(@, val)]
      [] dst = "C" -> [r EXCEPT !.bc = set_second(@, val)]
      [] dst = "D" -> [r EXCEPT !.de = set_first(@, val)]
      [] dst = "E" -> [r EXCEPT !.de = set_second(@, val)]
      [] dst = "H" -> [r EXCEPT !.hl = set_first(@, val)]
      [] dst = "L" -> [r EXCEPT !.hl = set_second(@, val)]

rc_copy8(r, dst, src) == rc_set8(r, dst, rc_get8(r, src))

\* RegOps<Reg16, u16>
rc_get16(r, src) ==
    CASE src = "AF" -> rc_get_double(r.af)
      [] src = "BC" -> rc_get_double(r.bc)
      [] src = "DE" -> rc_get_double(r.de)
      [] src = "HL" -> rc_get_double(r.hl)
      [] src = "SP" -> r.sp
      [] src = "PC" -> r.pc

rc_set16(r, dst, val) ==
    CASE dst = "AF" -> [r EXCEPT !.af = rc_set_double(@, val)]
      [] dst = "BC" -> [r EXCEPT !.bc = rc_set_double(@, val)]
      [] dst = "DE" -> [r EXCEPT !.de = rc_set_double(@, val)]
      [] dst = "HL" -> [r EXCEPT !.hl = rc_set_double(@, val)]
      [] dst = "SP" -> [r EXCEPT !.sp = val]
      [] dst = "PC" -> [r EXCEPT !.pc = val]

rc_copy16(r, dst, src) == rc_set16(r, dst, rc_get16(r, src))

\* Values the callers pass
Vals8  == {0, 52, 171}              \* 0x00, 0x34, 0xAB
Vals16 == {4660, 65297, 255}        \* 0x1234, 0xFF11, 0x00FF

NoRegOp == [op |-> "none", dst |-> "none", src |-> "none", val |-> 0]

RegSet8 ==
    \E dst \in Reg8, val \in Vals8 :
        /\ nregops < MaxRegOps
        /\ rc' = rc_set8(rc, dst, val)
        /\ regop' = [op |-> "set8", dst |-> dst, src |-> "none", val |-> val]
        /\ nregops' = nregops + 1
        /\ UNCHANGED <<cpuvars, ppuvars, drvvars>>

RegCopy8 ==
    \E dst \in Reg8, src \in Reg8 :
        /\ nregops < MaxRegOps
        /\ rc' = rc_copy8(rc, dst, src)
        /\ regop' = [op |-> "copy8", dst |-> dst, src |-> src, val |-> rc_get8(rc, src)]
        /\ nregops' = nregops + 1
        /\ UNCHANGED <<cpuvars, ppuvars, drvvars>>

RegSet16 ==
    \E dst \in Reg16, val \in Vals16 :
        /\ nregops < MaxRegOps
        /\ rc' = rc_set16(rc, dst, val)
        /\ regop' = [op |-> "set16", dst |-> dst, src |-> "none", val |-> val]
        /\ nregops' = nregops + 1
        /\ UNCHANGED <<cpuvars, ppuvars, drvvars>>

RegCopy16 ==
    \E dst \in Reg16, src \in Reg16 :
        /\ nregops < MaxRegOps
        /\ rc' = rc_copy16(rc, dst, src)
        /\ regop' = [op |-> "copy16", dst |-> dst, src |-> src, val |-> rc_get16(rc, src)]
        /\ nregops' = nregops + 1
        /\ UNCHANGED <<cpuvars, ppuvars, drvvars>>

----------------------------------------------------------------------------
(* Program images the interpreter is started on *)

\* The image holding each block <<address, bytes>>; where two blocks overlap
\* the earlier one wins.  Addresses past 0xFFFF wrap to the start of memory.
BlockAddrs(b) == {Wrap16(b[1] + i - 1) : i \in 1 .. Len(b[2])}

Image(blocks) ==
    LET dom == UNION {BlockAddrs(blocks[k]) : k \in 1 .. Len(blocks)}
    IN  [x \in dom |->
            LET k == CHOOSE k \in 1 .. Len(blocks) :
                        /\ x \in BlockAddrs(blocks[k])
                        /\ \A j \in 1 .. (k - 1) : x \notin BlockAddrs(blocks[j])
            IN  blocks[k][2][Wrap16(x - blocks[k][1]) + 1]]

\* Encoded instructions used to build the images
SeqInstrs ==
    { <<0>>,                 \* NOP
      <<1, 52, 18>>,         \* LD BC,0x1234
      <<33, 16, 192>>,       \* LD HL,0xC010
      <<38, 193>>,           \* LD H,0xC1
      <<46, 34>>,            \* LD L,0x22
      <<54, 119>>,           \* LD (HL),0x77
      <<112>>,               \* LD (HL),B
      <<65>>,                \* LD B,C
      <<24, 2>>,             \* JR +2
      <<24, 251>>,           \* JR -5
      <<118>>,               \* HALT
      <<2>>,                 \* undefined opcode 0x02
      <<203, 0>>,            \* CB 00
      <<203, 236>>,          \* CB EC
      <<243>>,               \* DI
      <<251>>,               \* EI
      <<205, 7, 0>>,         \* CALL 0x0007
      <<201>> }              \* RET

HighAddrs == {80, 65518, 65532, 65533, 65534, 65535}  \* 0x0050, 0xFFEE, 0xFFFC..0xFFFF

HighInstrs ==
    { <<24, e>> : e \in {0, 1, 2, 16, 17, 32, 127, 128, 254} }   \* JR e
    \cup { <<0>>, <<2>>, <<118>>, <<1, 52, 18>>, <<205, 0, 1>>, <<203, 0>>, <<203, 236>>, <<201>> }
    \cup { <<203, 74>>, <<203, 20>>, <<203, 212>> }               \* CB 4A, CB 14, CB D4
    \cup { <<203, 5>>, <<62, 7>>, <<226>>, <<243>>, <<251>> }     \* CB 05, LD A,7, LD (C),A, DI, EI
    \cup { <<203, 199>> }                                        \* CB C7

StackAddrs == {0, 1, 2, 53248, 65534, 65535}   \* 0x0000, 0x0001, 0x0002, 0xD000, 0xFFFE, 0xFFFF
CallSites  == {6, 80, 4660, 65532, 65533}      \* 0x0006, 0x0050, 0x1234, 0xFFFC, 0xFFFD
CallBodies == { <<201>>, <<217>>, <<243>>, <<0>> }   \* RET, RETI, DI, NOP

Lo(v) == v % 256
Hi(v) == v \div 256

AluAccs     == {15, 255, 0}      \* 0x0F, 0xFF, 0x00
AluOperands == {1, 0}

\* LD A,a; LD B,x; ADD A,B   and   LD A,a; ADD A,x
AluPrograms ==
    { Image(<< <<0, <<62, a, 6, x, 128>> >> >>) : a \in AluAccs, x \in AluOperands }
    \cup
    { Image(<< <<0, <<62, a, 198, x>> >> >>) : a \in AluAccs, x \in AluOperands }

\* LD SP,s; JP p; at p: CALL 0x0100; at 0x0100: b
CallPrograms ==
    { Image(<< <<0, <<49, Lo(s), Hi(s), 195, Lo(p), Hi(p)>> >>,
               <<p, <<205, 0, 1>> >>,
               <<256, b>> >>) : s \in StackAddrs, p \in CallSites, b \in CallBodies }

Programs ==
    AluPrograms \cup CallPrograms
    \cup
    \* three instructions in a row from address 0
    { Image(<< <<0, i1 \o i2 \o i3>> >>) : i1 \in SeqInstrs, i2 \in SeqInstrs, i3 \in SeqInstrs }
    \cup
    \* JP t; at t: one instruction
    { Image(<< <<0, <<195, Lo(t), Hi(t)>> >>, <<t, i>> >>) : t \in HighAddrs, i \in HighInstrs }

----------------------------------------------------------------------------
(* The interpreter's step *)

NoStep == [opcode |-> -1, prefixed |-> FALSE, operand8 |-> 0, operand16 |-> 0, pc |-> 0, sp |-> 0]

\* One call of CPU::process: its effect on the interpreter.  `last` records
\* what the call fetched; a call on a CPU that has quit fetches nothing.
process_call ==
    /\ ~panicked
    /\ nsteps < MaxSteps
    /\ nsteps' = nsteps + 1
    /\ LET r == process(cpu, build)
           f == fetch(cpu)
       IN  IF r.abort
           THEN /\ panicked' = TRUE
                /\ UNCHANGED <<cpu, result, last>>
           ELSE /\ cpu' = r.c
                /\ result' = r.ok
                /\ last' = IF cpu.quit
                           THEN last
                           ELSE [opcode |-> f.opcode, prefixed |-> f.prefixed,
                                 operand8 |-> f.operand8, operand16 |-> f.operand16,
                                 pc |-> cpu.regs.pc, sp |-> cpu.regs.sp]
                /\ UNCHANGED panicked
    /\ UNCHANGED build

Process ==
    /\ process_call
    /\ UNCHANGED <<ppuvars, regvars, drvvars>>

----------------------------------------------------------------------------
(* Emulation driver: starts the video timing machine, then steps the       *)
(* interpreter once and ticks the video timing machine once per cycle of   *)
(* the instruction just run, until process() returns false or the machine  *)
(* is no longer running.                                                   *)

\* The last process() call returned false
returned_false == nsteps > 0 /\ ~panicked /\ ~result

DrvStart ==
    \E quit_event \in BOOLEAN :
        /\ called = "none"
        /\ start_call(quit_event)
        /\ UNCHANGED <<cpuvars, regvars, drvvars>>

\* The driver's step taken without waiting for the ticks still owed
DrvStep_early ==
    /\ called # "none"
    /\ is_running
    /\ ~returned_false
    /\ process_call
    /\ owed' = IF panicked' \/ ~result' THEN 0 ELSE process(cpu, build).cycles
    /\ UNCHANGED <<ppuvars, regvars>>

DrvStep ==
    /\ called # "none"
    /\ is_running
    /\ ~returned_false
    /\ owed = 0
    /\ process_call
    /\ owed' = IF panicked' \/ ~result' THEN 0 ELSE process(cpu, build).cycles
    /\ UNCHANGED <<ppuvars, regvars>>

DrvTick ==
    /\ owed > 0
    /\ tick_call
    /\ owed' = owed - 1
    /\ UNCHANGED <<cpuvars, regvars>>

----------------------------------------------------------------------------
(* Specifications *)

InitPPUVars ==
    /\ state = "Off"
    /\ ly = 0
    /\ lclk = 0
    /\ lcd_open = TRUE
    /\ nticks = 0
    /\ frames = 0
    /\ called = "none"
    /\ drew = 0

InitRegVars ==
    /\ rc = RegisterCache_new
    /\ regop = NoRegOp
    /\ nregops = 0

\* No CPU stepping: the interpreter is constructed on an empty image
InitCPUVars ==
    /\ cpu = CPU_new(<<>>)
    /\ build = FALSE
    /\ panicked = FALSE
    /\ result = "none"
    /\ last = NoStep
    /\ nsteps = 0

InitCPU ==
    /\ cpu \in {CPU_new(m) : m \in Programs}
    /\ build \in BOOLEAN
    /\ panicked = FALSE
    /\ result = "none"
    /\ last = NoStep
    /\ nsteps = 0
    /\ InitPPUVars
    /\ InitRegVars
    /\ owed = 0

InitPPU ==
    /\ InitCPUVars
    /\ InitPPUVars
    /\ InitRegVars
    /\ owed = 0

InitReg ==
    /\ InitCPUVars
    /\ InitPPUVars
    /\ InitRegVars
    /\ owed = 0

InitDriver ==
    /\ cpu \in {CPU_new(m) : m \in AluPrograms \cup CallPrograms}
    /\ build \in BOOLEAN
    /\ panicked = FALSE
    /\ result = "none"
    /\ last = NoStep
    /\ nsteps = 0
    /\ InitPPUVars
    /\ InitRegVars
    /\ owed = 0

NextDriver == DrvStart \/ DrvStep \/ DrvTick

SpecDriver == InitDriver /\ [][NextDriver]_vars

NextReg == RegSet8 \/ RegCopy8 \/ RegSet16 \/ RegCopy16

SpecReg == InitReg /\ [][NextReg]_vars

NextCPU == Process

NextPPU == tick \/ start \/ stop

SpecCPU == InitCPU /\ [][NextCPU]_vars

SpecPPU == InitPPU /\ [][NextPPU]_vars

\* The video timing machine whose tick() keeps being called
SpecPPUFair == InitPPU /\ [][NextPPU]_vars /\ WF_vars(tick)

TypeOK ==
    /\ state \in PPUState
    /\ cpu.regs.pc \in 0 .. 65535
    /\ cpu.regs.sp \in 0 .. 65535

----------------------------------------------------------------------------
(* Claims about the instruction interpreter *)

\* A process() call was made in this step and it returned
Returned == nsteps' = nsteps + 1 /\ ~panicked'

\* The call made in this step ran the un-prefixed instruction op
Ran(op) ==
    /\ Returned
    /\ ~cpu.quit
    /\ ~fetch(cpu).prefixed
    /\ fetch(cpu).opcode = op

\* The last call that fetched an instruction fetched the un-prefixed opcode op
LastWas(op) == last.opcode = op /\ ~last.prefixed

\* C1: once the interpreter has halted or faulted, every later process()
\* call returns false and leaves the registers (PC and SP included), the
\* memory and the interrupt-enable latch as they were.
C1_TerminalIsInert ==
    [][(cpu.quit /\ nsteps' # nsteps) =>
          /\ ~panicked'
          /\ result' = FALSE
          /\ cpu'.quit
          /\ cpu'.regs = cpu.regs
          /\ cpu'.mem = cpu.mem
          /\ cpu'.ir_enabled = cpu.ir_enabled]_vars

\* HALT at address 0 ran in the first call and two more calls were made
C1_Witness ==
    /\ LastWas(118) /\ last.pc = 0
    /\ cpu.quit
    /\ nsteps >= 3
    /\ result = FALSE

\* C2 (as stated): a step that fetches an opcode with no instruction faults,
\* returns false and changes no register, no memory byte and not the
\* interrupt-enable latch.
C2_FaultAppliesNoEffect ==
    [][(Returned /\ ~cpu.quit /\ ~fetch(cpu).prefixed /\ fetch(cpu).opcode \notin ArmOpcodes) =>
          /\ cpu'.quit
          /\ result' = FALSE
          /\ cpu'.regs = cpu.regs
          /\ cpu'.mem = cpu.mem
          /\ cpu'.ir_enabled = cpu.ir_enabled]_vars

\* C3 (as stated): after a JR at p with displacement e that does not fault,
\* PC = (p + 2) + signed8(e).
C3_JRFromAdvancedPC ==
    (LastWas(24) /\ ~cpu.quit) =>
        cpu.regs.pc = (last.pc + 2) + AsI8(last.operand8)

\* C4 (as stated): a JR faults exactly when (p + 2) + signed8(e) lies outside
\* [0, 0xFFFF]; on the fault process() returns false and PC stays at the
\* advanced value p + 2.
C4_JRFaultsIffOutOfRange ==
    LastWas(24) =>
        /\ cpu.quit <=> ((last.pc + 2) + AsI8(last.operand8) \notin 0 .. 65535)
        /\ cpu.quit => (result = FALSE /\ cpu.regs.pc = Wrap16(last.pc + 2))

\* C5: a CALL a16 at p with stack pointer s sets PC to its target, stores the
\* return address p + 3 at the new top of stack and leaves SP = s - 2; a RET
\* or RETI that runs next sets PC = p + 3 and SP = s (16-bit arithmetic).
C5_CallRetRoundTrip ==
    [][ /\ Ran(205) =>
            /\ cpu'.regs.pc = fetch(cpu).operand16
            /\ cpu'.regs.sp = Wrap16(cpu.regs.sp - 2)
            /\ parse_u16(cpu'.mem, cpu'.regs.sp) = Wrap16(cpu.regs.pc + 3)
        /\ (LastWas(205) /\ (Ran(201) \/ Ran(217))) =>
            /\ cpu'.regs.pc = Wrap16(last.pc + 3)
            /\ cpu'.regs.sp = last.sp ]_vars

\* the call at 0x0050 to 0x0100 with SP = 0xD000 has returned to 0x0053
C5_Witness ==
    /\ LastWas(201) /\ last.pc = 256 /\ last.sp = 53246
    /\ cpu.regs.pc = 83
    /\ cpu.regs.sp = 53248
    /\ parse_u16(cpu.mem, 53246) = 83

----------------------------------------------------------------------------
(* Claims about the video timing machine.  While the machine is running,   *)
(* nticks is the number of tick() calls made since start() left it at      *)
(* (OAMSearch, dot 0, scanline 0).                                         *)

\* C6: from (OAMSearch, dot 0, scanline 0), after exactly 20 ticks the mode
\* is Draw and after exactly 20 + 63 ticks the mode is HBlank.
C6_DrawAt20HBlankAt83 ==
    is_running =>
        /\ nticks = 20 => state = "Draw"
        /\ nticks = 20 + 63 => state = "HBlank"

C6_Witness == state = "HBlank" /\ nticks = 20 + 63

\* C7 (as stated): from (OAMSearch, dot 0, scanline 0), after exactly
\* 20 + 63 + 114 ticks the scanline index is 1 and the mode is Draw.
C7_Line1DrawAt197 ==
    (is_running /\ nticks = 20 + 63 + 114) => (ly = 1 /\ state = "Draw")

\* C7 (amended): the scanline index becomes 1, with the mode Draw, after
\* exactly 114 ticks; after exactly 20 + 63 + 114 ticks the scanline index is
\* 1 and the mode is HBlank.
C7_Line1HBlankAt197 ==
    is_running =>
        /\ nticks < 114 => ly = 0
        /\ nticks = 114 => (ly = 1 /\ state = "Draw" /\ lclk = 0)
        /\ nticks = 20 + 63 + 114 => (ly = 1 /\ state = "HBlank")

C7_Witness == state = "HBlank" /\ ly = 1 /\ nticks = 20 + 63 + 114

\* Ticks from start() to the tick that moves the scanline index to 144
VBlankEntry == 144 * 114

\* C8: the tick that moves the scanline index to 144 is the tick of HBlank at
\* scanline 143, dot 113, and leaves VBlank with dot counter 0; the mode is
\* VBlank at each of the next 1140 ticks but the last, which leaves
\* OAMSearch with the scanline index 0.
C8_VBlankTenLines ==
    /\ [][(ly # 144 /\ ly' = 144) =>
             /\ state = "HBlank" /\ ly = 143 /\ lclk = 113
             /\ state' = "VBlank" /\ lclk' = 0]_vars
    /\ [](is_running =>
             /\ nticks = VBlankEntry => (state = "VBlank" /\ ly = 144 /\ lclk = 0)
             /\ (nticks >= VBlankEntry /\ nticks < VBlankEntry + 1140) => state = "VBlank"
             /\ nticks = VBlankEntry + 1140 => (state = "OAMSearch" /\ ly = 0 /\ lclk = 0))

C8_Witness == state = "OAMSearch" /\ ly = 0 /\ nticks = VBlankEntry + 1140

\* C9: in every reachable state the scanline index is within 0..153 and the
\* dot counter within 0..113.
C9_ScanlineAndDotInRange ==
    /\ ly \in 0 .. 153
    /\ lclk \in 0 .. 113

\* the last dot of the last scanline, reached by ticking
C9_Witness == is_running /\ ly = 153 /\ lclk = 113 /\ nticks = (154 * 114) - 1

----------------------------------------------------------------------------
(* Claims about the interpreter's register pairs *)

\* C10 (as stated): B, D, H are the high bytes and C, E, L the low bytes of
\* BC, DE, HL: each pair reads (first << 8) | second, LD rr,d16 with v leaves
\* first = v >> 8 and second = v & 0xFF, and LD (HL),d8 stores at (H << 8) | L.
C10_FirstRegisterIsHigh ==
    LET r == cpu.regs
        v == last.operand16
    IN  /\ get_bc(r) = (get_b(r) * 256) + get_c(r)
        /\ get_de(r) = (get_d(r) * 256) + get_e(r)
        /\ get_hl(r) = (get_h(r) * 256) + get_l(r)
        /\ LastWas(1)  => (get_b(r) = v \div 256 /\ get_c(r) = v % 256)
        /\ LastWas(17) => (get_d(r) = v \div 256 /\ get_e(r) = v % 256)
        /\ LastWas(33) => (get_h(r) = v \div 256 /\ get_l(r) = v % 256)
        /\ LastWas(54) => MemGet(cpu.mem, (get_h(r) * 256) + get_l(r)) = last.operand8

----------------------------------------------------------------------------
(* Claims about the Register Model *)

Pairs == {"AF", "BC", "DE", "HL"}

\* The 8-bit registers stored in a pair; the second half of AF has no Reg8
FirstOf(pair)  == CASE pair = "AF" -> "A" [] pair = "BC" -> "B" [] pair = "DE" -> "D" [] pair = "HL" -> "H"
SecondOf(pair) == CASE pair = "BC" -> "C" [] pair = "DE" -> "E" [] pair = "HL" -> "L"
PairOf(reg) ==
    CASE reg = "A" -> "AF"
      [] reg \in {"B", "C"} -> "BC"
      [] reg \in {"D", "E"} -> "DE"
      [] reg \in {"H", "L"} -> "HL"

\* C11: after set(pair, v): get(pair) = v, the pair's first register reads
\* v >> 8 and its second v & 0xFF; after setting a half, the pair reads
\* (first << 8) | second of the new halves; a set of a pair or of a half
\* changes no other pair, nor SP, nor PC.
C11_PairSetGet ==
    [][(nregops' # nregops) =>
          LET o == regop'
          IN  /\ o.op = "set16" =>
                    /\ rc_get16(rc', o.dst) = o.val
                    /\ o.dst \in Pairs => rc_get8(rc', FirstOf(o.dst)) = o.val \div 256
                    /\ o.dst \in Pairs \ {"AF"} => rc_get8(rc', SecondOf(o.dst)) = o.val % 256
                    /\ \A q \in Reg16 \ {o.dst} : rc_get16(rc', q) = rc_get16(rc, q)
              /\ o.op = "set8" =>
                    /\ rc_get8(rc', o.dst) = o.val
                    /\ \A q \in Reg8 \ {o.dst} : rc_get8(rc', q) = rc_get8(rc, q)
                    /\ \A q \in Reg16 \ {PairOf(o.dst)} : rc_get16(rc', q) = rc_get16(rc, q)
                    /\ rc_get16(rc', PairOf(o.dst)) =
                          IF o.dst = FirstOf(PairOf(o.dst))
                          THEN (o.val * 256) + (rc_get16(rc, PairOf(o.dst)) % 256)
                          ELSE ((rc_get16(rc, PairOf(o.dst)) \div 256) * 256) + o.val]_vars

\* set(BC, 0xFF11) was the last call: B = 0xFF, C = 0x11
C11_Witness ==
    /\ regop = [op |-> "set16", dst |-> "BC", src |-> "none", val |-> 65297]
    /\ rc_get8(rc, "B") = 255
    /\ rc_get8(rc, "C") = 17
    /\ rc_get16(rc, "BC") = 65297

\* the two halves of HL were set one after the other: HL = (0xAB << 8) | 0x34
C11_WitnessHalves ==
    /\ regop = [op |-> "set8", dst |-> "L", src |-> "none", val |-> 52]
    /\ rc_get8(rc, "H") = 171
    /\ rc_get16(rc, "HL") = 43828

\* C16 (as stated): after any sequence of register operations the lower
\* nibble of the flag byte (the second half of AF) is 0.
C16_FlagLowNibbleZero == get_second(rc.af) % 16 = 0

----------------------------------------------------------------------------
(* Claims about the instruction interpreter, continued *)

\* C12 (as stated): a step that fetches 0xCB followed by b never runs the
\* instruction of an un-prefixed opcode, whatever b is.
C12_PrefixedNamespaceDistinct ==
    last.prefixed => last.opcode \notin (ArmOpcodes \ {CBPrefix})

----------------------------------------------------------------------------
(* Claims about the video timing machine, continued.  `called` names the   *)
(* PPU method whose call led to the state and `drew` counts the frames     *)
(* that call handed to Window::draw.                                       *)

\* C13 (as stated): after every start(), whatever the state before, the mode
\* is OAMSearch, the dot counter and the scanline index are 0 and exactly one
\* frame was handed to the display surface by the call.
C13_StartResetsAndDraws ==
    called = "start" =>
        (state = "OAMSearch" /\ lclk = 0 /\ ly = 0 /\ drew = 1)

\* C13 (amended): after every start() the dot counter and the scanline index
\* are 0; if the display surface is still open after the call's event poll
\* the mode is OAMSearch and exactly one frame was drawn by the call,
\* otherwise the mode is Off and no frame was drawn.
C13_StartResetsAndDrawsIfOpen ==
    called = "start" =>
        /\ lclk = 0 /\ ly = 0
        /\ lcd_open  => (state = "OAMSearch" /\ drew = 1)
        /\ ~lcd_open => (state = "Off" /\ drew = 0)

\* start() was called in the middle of a frame (the count of frames drawn
\* shows an earlier start) and the display was still open
C13_Witness ==
    /\ called = "start" /\ lcd_open /\ frames = 2
    /\ state = "OAMSearch" /\ lclk = 0 /\ ly = 0 /\ drew = 1

\* C14 (as stated): a running machine hands a frame to the display surface
\* in each start() call and in each tick() call that completes a scan cycle
\* (the HBlank tick that begins the next scanline).
C14_FramePerScanCycle ==
    is_running =>
        /\ called = "start" => drew = 1
        /\ (called = "tick" /\ lclk = 0 /\ ly \in 1 .. 144) => drew = 1

\* C15: when a frame is produced and the display surface reports after its
\* event poll that it is no longer open, the mode becomes Off, nothing is
\* drawn and is_running() is false.
C15_ClosedDisplayStops ==
    (called = "start" /\ ~lcd_open) =>
        (state = "Off" /\ drew = 0 /\ ~is_running)

\* start() polled a quit event on a display that had been drawing
C15_Witness ==
    /\ called = "start" /\ ~lcd_open /\ frames >= 1
    /\ state = "Off" /\ drew = 0

\* C19 (as stated): the tick that takes the machine from OAMSearch to Draw
\* resets the dot counter to 0.
C19_DrawEntryResetsDot ==
    [][(state = "OAMSearch" /\ state' = "Draw") => (lclk = 19 /\ lclk' = 0)]_vars

\* C19 (amended): the tick that takes the machine from OAMSearch to Draw
\* (OAMSearch at dot 19) advances the dot counter to 20; the counter is
\* not reset, so Draw on scanline 0 counts on from 20.
C19_DrawEntryKeepsDot ==
    [][(state = "OAMSearch" /\ state' = "Draw") =>
          (lclk = 19 /\ lclk' = 20 /\ ly' = ly /\ called' = "tick")]_vars

C19_Witness == state = "Draw" /\ lclk = 20 /\ ly = 0 /\ called = "tick" /\ nticks = 20

\* C20: a tick() of a running machine either adds 1 to the dot counter and
\* leaves the scanline index, or resets the dot counter to 0 while the
\* scanline index grows by 1 or wraps from 153 to 0.
C20_DotAndScanlineAdvanceTogether ==
    [][(is_running /\ called' = "tick") =>
          \/ (lclk' = lclk + 1 /\ ly' = ly)
          \/ (lclk' = 0 /\ (ly' = ly + 1 \/ (ly = 153 /\ ly' = 0)))]_vars

\* the tick that wrapped the scanline index from 153 to 0
C20_Witness ==
    /\ called = "tick" /\ is_running
    /\ ly = 0 /\ lclk = 0 /\ nticks = 154 * 114

----------------------------------------------------------------------------
(* Claims about the ALU *)

\* ADD A,r (0x80..0x87, operand in opcode order B C D E H L (HL) A) and
\* ADD A,d8 (0xC6)
AddOpcodes == (128 .. 135) \cup {198}

AddOperand(c, f) == IF f.opcode = 198 THEN f.operand8 ELSE get_r8(c, f.opcode - 128)

\* C17 (as stated): an add of the 8-bit operand x to the accumulator A does
\* not fault and leaves A' = (A + x) mod 256, Zero = (A' = 0), Subtract =
\* false, Half-Carry = ((A & 0xF) + (x & 0xF) > 0xF) and Carry = (A + x > 255).
C17_AluAdd ==
    [][(Returned /\ ~cpu.quit /\ ~fetch(cpu).prefixed /\ fetch(cpu).opcode \in AddOpcodes) =>
          LET acc == get_a(cpu.regs)
              x   == AddOperand(cpu, fetch(cpu))
          IN  /\ ~cpu'.quit
              /\ result' = TRUE
              /\ get_a(cpu'.regs) = (acc + x) % 256
              /\ cpu'.regs.f = [zero       |-> (acc + x) % 256 = 0,
                               was_sub    |-> FALSE,
                               half_carry |-> (acc % 16) + (x % 16) > 15,
                               carry      |-> acc + x > 255]]_vars

----------------------------------------------------------------------------
(* Claims about the emulation driver *)

\* C18: after each process() step the driver makes exactly as many tick()
\* calls as the cycle cost of the instruction just run before the next
\* process() step; a tick never changes the interpreter and a step never
\* changes the timing machine; no step is made once process() has returned
\* false or the machine has stopped because the display closed.
C18_Lockstep ==
    [][ /\ (nsteps' # nsteps) =>
            /\ owed = 0
            /\ ~returned_false
            /\ is_running
            /\ <<state, ly, lclk, nticks>>' = <<state, ly, lclk, nticks>>
            /\ (~panicked' /\ result') => owed' = process(cpu, build).cycles
        /\ (nsteps' = nsteps /\ owed' # owed) =>
            /\ called' = "tick"
            /\ owed' = owed - 1
            /\ nticks' = nticks + 1
            /\ cpu' = cpu ]_vars

\* LD SP,d16 (12 cycles) and JP a16 (16 cycles) have run, each followed by
\* its ticks, and CALL (24 cycles) has just run
C18_Witness ==
    /\ nsteps = 3 /\ LastWas(205)
    /\ nticks = 12 + 16
    /\ owed = 24
    /\ is_running

----------------------------------------------------------------------------
(* Claims about the program counter *)

\* The value each arm of the match leaves in `opsize`
OpSize(op) ==
    CASE op \in {1, 17, 33, 49, 195, 205, 234, 250} -> 3
      [] op \in {6, 14, 22, 24, 30, 38, 46, 54, 62, 224, 226, 240, 242} -> 2
      [] OTHER -> 1

\* JR, JP, CALL, RET, RETI
JumpOpcodes == {24, 195, 205, 201, 217}

\* C21 (as stated): a step at p that runs an instruction other than a jump,
\* call or return and does not fault leaves PC = p + L, L being the encoded
\* length of the instruction, which is 1, 2 or 3, CB-prefixed instructions
\* included; after JP, CALL and RET the PC is the target, no length added.
C21_PCAdvancesByLength ==
    [][(Returned /\ ~cpu.quit /\ ~cpu'.quit) =>
          LET f == fetch(cpu)
              p == cpu.regs.pc
          IN  /\ (~f.prefixed /\ f.opcode \notin JumpOpcodes) =>
                    cpu'.regs.pc = Wrap16(p + OpSize(f.opcode))
              /\ f.prefixed =>
                    \E L \in 1 .. 3 : cpu'.regs.pc = Wrap16(p + L)
              /\ (~f.prefixed /\ f.opcode \in {195, 205}) => cpu'.regs.pc = f.operand16
              /\ (~f.prefixed /\ f.opcode \in {201, 217}) =>
                    cpu'.regs.pc = parse_u16(cpu.mem, cpu.regs.sp)]_vars

\* C21 without its CB-prefixed case
C21_Unprefixed ==
    [][(Returned /\ ~cpu.quit /\ ~cpu'.quit /\ ~fetch(cpu).prefixed) =>
          LET f == fetch(cpu)
              p == cpu.regs.pc
          IN  /\ f.opcode \notin JumpOpcodes => cpu'.regs.pc = Wrap16(p + OpSize(f.opcode))
              /\ f.opcode \in {195, 205} => cpu'.regs.pc = f.operand16
              /\ f.opcode \in {201, 217} => cpu'.regs.pc = parse_u16(cpu.mem, cpu.regs.sp)]_vars

----------------------------------------------------------------------------
(* Claims about byte order *)

\* The 16-bit value whose low byte is stored at addr and high byte at addr + 1
LittleEndianAt(m, addr) == MemGet(m, addr) + (256 * MemGet(m, Wrap16(addr + 1)))

\* C22: every 16-bit memory access of the interpreter is little-endian: the
\* 16-bit immediate of an instruction at p is mem[p+1] | (mem[p+2] << 8);
\* CALL writes the low byte of the return address at the new SP and the high
\* byte at SP + 1; RET and RETI read the low byte at SP and the high byte at
\* SP + 1.
C22_LittleEndian ==
    [][Returned =>
          LET p   == cpu.regs.pc
              imm == LittleEndianAt(cpu.mem, Wrap16(p + 1))
          IN  /\ Ran(1)   => get_bc(cpu'.regs) = imm
              /\ Ran(17)  => get_de(cpu'.regs) = imm
              /\ Ran(33)  => get_hl(cpu'.regs) = imm
              /\ Ran(49)  => cpu'.regs.sp = imm
              /\ Ran(195) => cpu'.regs.pc = imm
              /\ Ran(205) =>
                    /\ cpu'.regs.pc = imm
                    /\ MemGet(cpu'.mem, cpu'.regs.sp) = Wrap16(p + 3) % 256
                    /\ MemGet(cpu'.mem, Wrap16(cpu'.regs.sp + 1)) = Wrap16(p + 3) \div 256
              /\ (Ran(201) \/ Ran(217)) =>
                    cpu'.regs.pc = LittleEndianAt(cpu.mem, cpu.regs.sp)]_vars

\* CALL at 0x1234 with SP = 0xD000 stored 0x37 at 0xCFFE and 0x12 at 0xCFFF,
\* and the RET that followed returned to 0x1237
C22_Witness ==
    /\ LastWas(201) /\ last.sp = 53246
    /\ MemGet(cpu.mem, 53246) = 55
    /\ MemGet(cpu.mem, 53247) = 18
    /\ cpu.regs.pc = 4663
    /\ cpu.regs.sp = 53248

----------------------------------------------------------------------------
(* Claims about address arithmetic *)

\* A process() call is made in this step on a CPU that has not quit and it
\* fetches an un-prefixed opcode, so that the only arithmetic that can
\* overflow is on 16-bit addresses
StepsUnprefixed == nsteps' = nsteps + 1 /\ ~cpu.quit /\ ~fetch(cpu).prefixed

\* What C23 says of such a step: the call returns, CALL leaves SP - 2, RET
\* and RETI leave SP + 2, and an instruction that neither jumps nor faults
\* leaves PC + opsize, all modulo 65536.
StepWraps ==
    LET f == fetch(cpu)
    IN  /\ ~panicked'
        /\ f.opcode = 205 => cpu'.regs.sp = Wrap16(cpu.regs.sp - 2)
        /\ f.opcode \in {201, 217} => cpu'.regs.sp = Wrap16(cpu.regs.sp + 2)
        /\ (f.opcode \notin JumpOpcodes /\ ~cpu'.quit) =>
              cpu'.regs.pc = Wrap16(cpu.regs.pc + OpSize(f.opcode))

\* C23 (as stated): every 16-bit address computation inside a step wraps
\* modulo 65536 and never aborts the step: the operand fetches at PC+1 and
\* PC+2, the PC advance, SP-2 and SP+1 in CALL and SP+2 in RET; a CALL with
\* SP = 0x0000 completes with SP = 0xFFFE and an instruction at 0xFFFF or
\* 0xFFFE completes with PC wrapped.
C23_AddressesWrap ==
    [][StepsUnprefixed => StepWraps]_vars

\* The same statement for the build without overflow checks only
C23_WrapsWithoutChecks ==
    [][(StepsUnprefixed /\ ~build) => StepWraps]_vars

\* CALL ran first, with SP = 0x0000 as left by the constructor, and returned
C23_CallFromResetSP ==
    /\ nsteps = 1 /\ ~panicked /\ LastWas(205) /\ last.sp = 0
    /\ cpu.regs.sp = 65534

----------------------------------------------------------------------------
(* Claims about the interrupt-enable latch *)

\* The step fetches the un-prefixed opcode op on a CPU that has not quit
Fetches(op) == ~cpu.quit /\ ~fetch(cpu).prefixed /\ fetch(cpu).opcode = op

\* C24 (as stated): the interrupt-enable latch is enabled after construction,
\* is disabled exactly by DI (0xF3), enabled exactly by EI (0xFB) and RETI
\* (0xD9), and left unchanged by every other step, plain RET, HALT and
\* faulting steps included.
C24_LatchOnlyByDIEIRETI ==
    /\ [](nsteps = 0 => cpu.ir_enabled)
    /\ [][Returned =>
             /\ Fetches(243) => ~cpu'.ir_enabled
             /\ (Fetches(251) \/ Fetches(217)) => cpu'.ir_enabled
             /\ ~(Fetches(243) \/ Fetches(251) \/ Fetches(217)) =>
                   cpu'.ir_enabled = cpu.ir_enabled]_vars

\* C24 for the steps that fetch no 0xCB prefix
C24_Unprefixed ==
    /\ [](nsteps = 0 => cpu.ir_enabled)
    /\ [][(Returned /\ (cpu.quit \/ ~fetch(cpu).prefixed)) =>
             /\ Fetches(243) => ~cpu'.ir_enabled
             /\ (Fetches(251) \/ Fetches(217)) => cpu'.ir_enabled
             /\ ~(Fetches(243) \/ Fetches(251) \/ Fetches(217)) =>
                   cpu'.ir_enabled = cpu.ir_enabled]_vars

\* DI disabled the latch and the EI after it enabled it again
C24_Reenabled == LastWas(251) /\ last.pc = 1 /\ cpu.ir_enabled /\ MemGet(cpu.mem, 0) = 243

----------------------------------------------------------------------------
(* Claims about the Off mode *)

\* C25: while the machine is Off, tick() changes neither the mode, the
\* scanline index nor the dot counter; stop() forces the mode to Off from any
\* state; tick() never enters or leaves Off, so Off is left only by start().
C25_OffIsInert ==
    [][ /\ (state = "Off" /\ called' = "tick") => UNCHANGED <<state, ly, lclk>>
        /\ called' = "stop" => state' = "Off"
        /\ called' = "tick" => ((state = "Off") <=> (state' = "Off"))
        /\ (state = "Off" /\ state' # "Off") => called' = "start" ]_vars

\* stop() was called in the middle of scanline 2 and tick() was called after
\* it: the machine is Off where it was stopped
C25_Witness ==
    /\ state = "Off" /\ called = "tick"
    /\ ly = 2 /\ lclk = 57

----------------------------------------------------------------------------
(* Claims about the period of the video timing *)

\* Ticks of one frame: 154 scanlines of 114 ticks
FrameTicks == 154 * 114

\* nticks still counts every tick() made since start()
Counted == is_running /\ nticks < MaxTicks

\* C26: from (OAMSearch, dot 0, scanline 0), with only tick() calls, every
\* scanline lasts exactly 114 ticks (the scanline index changes on every
\* 114th tick and on no other), and the machine is back at (OAMSearch, dot 0,
\* scanline 0) for the first time after exactly 154 * 114 = 17556 ticks.
C26_Period ==
    /\ [](Counted =>
             /\ lclk = nticks % 114
             /\ ly = (nticks \div 114) % 154
             /\ (state = "OAMSearch" /\ lclk = 0 /\ ly = 0) <=> (nticks % FrameTicks = 0))
    /\ [][(Counted /\ called' = "tick" /\ nticks' < MaxTicks) =>
             /\ nticks' = nticks + 1
             /\ (ly' # ly) <=> (nticks' % 114 = 0)]_vars

\* one full period of 17556 ticks has passed and the first tick of the next
\* period has been made
C26_Witness ==
    /\ state = "OAMSearch" /\ ly = 0 /\ lclk = 1
    /\ called = "tick" /\ nticks = FrameTicks + 1

----------------------------------------------------------------------------
(* Claims about mode and scanline *)

\* C27: in every reachable state in which the machine is running, the mode is
\* VBlank if and only if the scanline index is in 144..153, the mode is Draw
\* or HBlank only on scanlines 0..143, and the mode is OAMSearch only on
\* scanline 0: scanlines 1..143 start directly in Draw.
C27_ModeAgreesWithScanline ==
    is_running =>
        /\ (state = "VBlank") <=> (ly \in 144 .. 153)
        /\ state \in {"Draw", "HBlank"} => ly \in 0 .. 143
        /\ state = "OAMSearch" => ly = 0
        /\ (ly \in 1 .. 143 /\ lclk = 0) => state = "Draw"

\* the last visible scanline has just begun, in Draw
C27_Witness ==
    /\ is_running /\ called = "tick"
    /\ state = "Draw" /\ ly = 143 /\ lclk = 0

----------------------------------------------------------------------------
(* Claims about progress of the video timing *)

\* From some point on the machine is running and only tick() is called
OnlyTicks == <>[](is_running /\ called = "tick")

\* C28: if the machine is running and tick() keeps being called with no
\* stop(), the machine eventually enters VBlank and eventually returns to
\* OAMSearch at scanline 0: no mode is stuck, and each of OAMSearch, Draw,
\* HBlank and VBlank recurs infinitely often.
C28_ModesRecur ==
    OnlyTicks =>
        /\ []<>(state = "VBlank")
        /\ []<>(state = "OAMSearch" /\ ly = 0)
        /\ []<>(state = "Draw")
        /\ []<>(state = "HBlank")

\* a whole frame has passed and Draw has been entered again on scanline 0
C28_Witness ==
    /\ is_running /\ called = "tick"
    /\ state = "Draw" /\ ly = 0 /\ lclk = 20
    /\ nticks = FrameTicks + 20

====
